---- MODULE Spec2Model ----
(***************************************************************************)
(* X-Post-Planner: the scheduling-and-dispatch engine of server.js (the    *)
(* SQLite tweets and rate_limits tables, the three in-memory limiters, the *)
(* idempotency set, the HTTP handlers that create, edit and delete tweets  *)
(* and runScheduler with every await as a step boundary), together with    *)
(* calculateBackoffDelay of app.js.                                        *)
(*                                                                         *)
(* Time is counted in slots.  A minute has SlotsPerMinute slots so that    *)
(* instants inside one minute can be told apart.  Timestamps that are only *)
(* written and never read (createdAt, updatedAt, postedAt, failedAt) are   *)
(* left out of the rows.                                                   *)
(***************************************************************************)
EXTENDS Integers, Sequences, FiniteSets, TLC

VARIABLES
  clock,          \* wall clock (new Date()), in slots
  env,            \* process.env: DRY_RUN and the four Twitter credentials
  tweets,         \* table tweets: id -> row
  nextId,         \* number of ids uuidv4() has handed out
  rate_limits,    \* table rate_limits: <<period, date>> -> used
  limiter,        \* dailyLimiter, hourlyLimiter, minuteLimiter
  postedHashes,   \* the idempotency cache
  twitterClient,  \* TRUE when initializeTwitterClient returned a client
  twitterIds,     \* number of tweets the publishing API has accepted
  timerDue,       \* a timer callback (startup setTimeout or minute timer) is due
  firstTickRan,   \* a tick has started since startServer
  tick,           \* the executions of runScheduler in flight
  budget,         \* what is left to observe: HTTP requests, restarts, clock slots
  failures,       \* history: rejected publish calls of the tweets under observation
  backoff         \* app.js retry loop: attempt, base, delay, slept

vars == <<clock, env, tweets, nextId, rate_limits, limiter, postedHashes,
          twitterClient, twitterIds, timerDue, firstTickRan, tick, budget,
          failures, backoff>>

----------------------------------------------------------------------------
(* Bounds of the model *)

MaxItems == 2          \* tweets ever created through POST /api/tweets
NumTicks == 2          \* executions of runScheduler that may overlap
SlotsPerMinute == 2    \* instants told apart inside one minute
MinutesPerHour == 2    \* scaled-down hour
HoursPerDay == 2       \* scaled-down day
ClockSpan == 2         \* slots the clock may advance after Init
MaxRequests == 1       \* HTTP requests served
MaxRestarts == 1       \* restarts of the process
PastDate == 0          \* a dateTime that has passed when the process starts
MaxBackoffAttempt == 12 \* largest attempt number passed to calculateBackoffDelay
BacklogExtra == 1      \* due tweets beyond the minute limit in a backlog
RetryMinutes == 6      \* minutes observed while every publish call is rejected

(* Program constants *)

TWEET_DAILY_LIMIT == 150
TWEET_HOURLY_LIMIT == 25
TWEET_MINUTE_LIMIT == 3
MaxAttemptIndex == 4
BackoffCap == 300000
RATE_LIMIT_BACKOFF_BASE == 1000
ServerErrorBase == 5000
RetryDelayMinutes == 5

NULL == "null"
NoTweetId == 0

SlotsPerHour == SlotsPerMinute * MinutesPerHour
SlotsPerDay == SlotsPerHour * HoursPerDay
StartClock == SlotsPerDay - ClockSpan
TzOffset == SlotsPerHour     \* local time is one hour ahead of UTC

Ticks == DOMAIN tick
Periods == {"daily", "hourly", "minute"}
Ids == 1..MaxItems
RawTexts == {"a", "a ", "b"}
FutureDate == SlotsPerDay + 1
DateTimes == {PastDate, FutureDate}
NullDate == 0 - 1           \* null where a date is expected
NoDate == 0 - 2             \* a request body without dateTime
BadDate == 0 - 3            \* a dateTime that new Date() cannot parse
ErrorMessages == {"429", "500", "400"}

Min(a, b) == IF a <= b THEN a ELSE b
Max(a, b) == IF a >= b THEN a ELSE b

----------------------------------------------------------------------------
(* Pure helpers *)

\* String.prototype.trim on the request texts
Trim(raw) == IF raw = "a " THEN "a" ELSE raw

\* sha256 of the text: distinct texts have distinct digests
generateContentHash(text) == <<"sha256", text>>

\* parseScheduledDate: a date or null
parseScheduledDate(dateString) ==
  IF dateString \in 0..FutureDate THEN dateString ELSE NullDate

\* now.toISOString().split('T')[0]: the UTC calendar date
Today(now) == now \div SlotsPerDay

\* now.getHours() and now.getMinutes(): local time
getHours(now) == ((now + TzOffset) \div SlotsPerHour) % HoursPerDay
getMinutes(now) == ((now + TzOffset) \div SlotsPerMinute) % MinutesPerHour

currentHour(now) == <<Today(now), getHours(now)>>
currentMinute(now) == <<Today(now), getHours(now), getMinutes(now)>>

BucketKey(period, now) ==
  CASE period = "daily" -> <<"daily", <<Today(now)>>>>
    [] period = "hourly" -> <<"hourly", currentHour(now)>>
    [] period = "minute" -> <<"minute", currentMinute(now)>>

Limit(period) ==
  CASE period = "daily" -> TWEET_DAILY_LIMIT
    [] period = "hourly" -> TWEET_HOURLY_LIMIT
    [] period = "minute" -> TWEET_MINUTE_LIMIT

Duration(period) ==
  CASE period = "daily" -> SlotsPerDay
    [] period = "hourly" -> SlotsPerHour
    [] period = "minute" -> SlotsPerMinute

\* getRateLimitUsage: the row's used, 0 when there is no row
getRateLimitUsage(rl, period, now) ==
  IF BucketKey(period, now) \in DOMAIN rl THEN rl[BucketKey(period, now)] ELSE 0

\* updateRateLimitUsage: INSERT OR REPLACE ... COALESCE(used, 0) + 1
updateRateLimitUsage(rl, period, now) ==
  [key \in DOMAIN rl \cup {BucketKey(period, now)} |->
     IF key = BucketKey(period, now)
     THEN getRateLimitUsage(rl, period, now) + 1
     ELSE rl[key]]

updateAllUsage(rl, now) ==
  updateRateLimitUsage(
    updateRateLimitUsage(
      updateRateLimitUsage(rl, "daily", now), "hourly", now), "minute", now)

\* initializeRateLimiters: points = max(0, limit - used of the bucket of now)
initializeRateLimiters(rl, now) ==
  [p \in Periods |->
     [points |-> Max(0, Limit(p) - getRateLimitUsage(rl, p, now)),
      consumed |-> 0,
      expiresAt |-> 0]]

\* RateLimiterMemory record of key 'user': live until expiresAt
Live(lim, now) == lim.consumed > 0 /\ now < lim.expiresAt

\* RateLimiterMemory.consume('user', 1): incrby, then reject when over points
consume(lim, p, now) ==
  IF Live(lim, now)
  THEN [lim EXCEPT !.consumed = @ + 1]
  ELSE [lim EXCEPT !.consumed = 1, !.expiresAt = now + Duration(p)]

Rejected(lim) == lim.consumed > lim.points

\* the timers that delete expired limiter records
expire(lims, now) ==
  [p \in Periods |->
     IF Live(lims[p], now) THEN lims[p]
     ELSE [lims[p] EXCEPT !.consumed = 0, !.expiresAt = 0]]

\* columns of the tweets table
Columns == {"text", "runAt", "status", "attempts", "tweetId", "error"}

\* the nextRetryAt a row holds: the table has no such column
nextRetryAtOf(row) == NULL

\* an UPDATE that skips the keys the table has no column for
updateKnownColumns(tw, id, updates) ==
  IF id \notin DOMAIN tw THEN tw
  ELSE [tw EXCEPT ![id] =
          [c \in Columns |-> IF c \in DOMAIN updates THEN updates[c] ELSE tw[id][c]]]

\* an update written as INSERT OR REPLACE: a missing row is created from the
\* column defaults
upsertTweet(tw, id, updates) ==
  LET defaults == [text |-> "", runAt |-> 0, status |-> "pending", attempts |-> 0,
                   tweetId |-> 0, error |-> "null"]
      old == IF id \in DOMAIN tw THEN tw[id] ELSE defaults
  IN IF ~(DOMAIN updates \subseteq Columns) THEN tw
     ELSE [i \in DOMAIN tw \cup {id} |->
             IF i = id
             THEN [c \in Columns |-> IF c \in DOMAIN updates THEN updates[c] ELSE old[c]]
             ELSE tw[i]]

\* updateTweet: UPDATE tweets SET ... WHERE id = ?; a column the table does
\* not have makes the statement fail and nothing is written
updateTweet(tw, id, updates) ==
  IF ~(DOMAIN updates \subseteq Columns) THEN tw
  ELSE IF id \notin DOMAIN tw THEN tw
  ELSE [tw EXCEPT ![id] =
          [c \in Columns |-> IF c \in DOMAIN updates THEN updates[c] ELSE tw[id][c]]]

\* deleteTweet: DELETE FROM tweets WHERE id = ?
deleteTweet(tw, id) == [i \in DOMAIN tw \ {id} |-> tw[i]]

\* saveTweet: INSERT OR REPLACE
saveTweet(tw, id, row) == [i \in DOMAIN tw \cup {id} |-> IF i = id THEN row ELSE tw[i]]

\* runScheduler's filter: pending and runAt <= now
IsDue(row, now) ==
  /\ row.status = "pending"
  /\ parseScheduledDate(row.runAt) # NullDate
  /\ parseScheduledDate(row.runAt) <= now

\* loadTweets then filter: the due rows in ORDER BY runAt ASC; rows with the
\* same runAt come in any order
dueTweets(tw, now) ==
  LET due == {i \in DOMAIN tw : IsDue(tw[i], now)}
      n == Cardinality(due)
  IN {s \in [1..n -> due] :
        /\ \A i, j \in 1..n : i # j => s[i] # s[j]
        /\ \A i, j \in 1..n : i < j => tw[s[i]].runAt <= tw[s[j]].runAt}

Snapshot(tw, ids) ==
  [i \in 1..Len(ids) |->
     [id |-> ids[i], text |-> tw[ids[i]].text, attempts |-> tw[ids[i]].attempts]]

IdleTick == [pc |-> "idle", first |-> FALSE, due |-> <<>>, at |-> 0,
             result |-> "none", data |-> NoTweetId, error |-> NULL]

\* app.js calculateBackoffDelay: Math.min(baseDelay * Math.pow(2, attempt), 300000)
RECURSIVE pow(_, _)
pow(b, e) == IF e = 0 THEN 1 ELSE b * pow(b, e - 1)

\* the delay without its ceiling
UncappedDelay(attempt, baseDelay) == baseDelay * pow(2, attempt)

calculateBackoffDelay(attempt, baseDelay) ==
  Min(baseDelay * pow(2, attempt), BackoffCap)


----------------------------------------------------------------------------
(* The store and the budget a process may find at startup *)

\* rows left by earlier runs; the second is a tweet migrateExistingData took
\* from schedule.json, where app.js had left it pending after four failures
InitTweets ==
  { <<>>,
    (1 :> [text |-> "a", runAt |-> PastDate, status |-> "pending",
           attempts |-> MaxAttemptIndex, tweetId |-> NoTweetId, error |-> NULL]) }

\* rate_limits rows of the current buckets left by earlier runs
InitUsed == { [daily |-> 0, hourly |-> 0, minute |-> 0],
              [daily |-> TWEET_MINUTE_LIMIT, hourly |-> TWEET_MINUTE_LIMIT,
               minute |-> TWEET_MINUTE_LIMIT] }

InitRateLimits(u) ==
  IF u.daily = 0 THEN <<>>
  ELSE [key \in {BucketKey(p, StartClock) : p \in Periods} |-> u[key[1]]]

\* DRY_RUN and whether the four credentials are set
Envs == { [DRY_RUN |-> TRUE, credentials |-> FALSE],
          [DRY_RUN |-> FALSE, credentials |-> TRUE],
          [DRY_RUN |-> FALSE, credentials |-> FALSE] }

\* initializeTwitterClient: a client only when all four credentials are set
initializeTwitterClient(e) == e.credentials

\* the state startServer leaves: database opened, limiters initialised from
\* the ledger, client initialised, the startup setTimeout armed
Started(e, tw, rl, now, n) ==
  /\ clock = now
  /\ env = e
  /\ tweets = tw
  /\ nextId = Cardinality(DOMAIN tw)
  /\ rate_limits = rl
  /\ limiter = initializeRateLimiters(rl, now)
  /\ postedHashes = {}
  /\ twitterClient = initializeTwitterClient(e)
  /\ twitterIds = 0
  /\ timerDue = TRUE
  /\ firstTickRan = FALSE
  /\ tick = [k \in 1..n |-> IdleTick]

NoBackoff == [attempt |-> 0, base |-> 0, delay |-> 0, slept |-> 0]

Init ==
  /\ \E e \in Envs, tw \in InitTweets, u \in InitUsed :
       Started(e, tw, InitRateLimits(u), StartClock, NumTicks)
  /\ budget = [requests |-> MaxRequests, restarts |-> MaxRestarts, slots |-> ClockSpan]
  /\ failures = <<>>
  /\ backoff = NoBackoff

----------------------------------------------------------------------------
(* HTTP handlers *)

\* app.post('/api/tweets')
PostTweets(raw, dateTime) ==
  /\ nextId < MaxItems
  /\ raw # "" /\ dateTime # NoDate
  /\ parseScheduledDate(dateTime) # NullDate
  /\ tweets' = saveTweet(tweets, nextId + 1,
                 [text |-> Trim(raw), runAt |-> parseScheduledDate(dateTime),
                  status |-> "pending", attempts |-> 0,
                  tweetId |-> NoTweetId, error |-> NULL])
  /\ nextId' = nextId + 1
  /\ budget.requests > 0
  /\ budget' = [budget EXCEPT !.requests = @ - 1]
  /\ UNCHANGED <<clock, env, rate_limits, limiter, postedHashes, twitterClient,
                 twitterIds, timerDue, firstTickRan, tick, failures, backoff>>

\* app.delete('/api/tweets/:id')
DeleteTweets(id) ==
  /\ id \in DOMAIN tweets
  /\ tweets' = deleteTweet(tweets, id)
  /\ budget.requests > 0
  /\ budget' = [budget EXCEPT !.requests = @ - 1]
  /\ UNCHANGED <<clock, env, nextId, rate_limits, limiter, postedHashes,
                 twitterClient, twitterIds, timerDue, firstTickRan, tick, failures, backoff>>

\* the updates object app.put builds from the request body
PutUpdates(raw, dateTime) ==
  LET textPart == IF raw # NULL THEN [text |-> Trim(raw)] ELSE <<>>
      datePart == IF dateTime # NoDate /\ parseScheduledDate(dateTime) # NullDate
                  THEN [runAt |-> parseScheduledDate(dateTime),
                        status |-> "pending", attempts |-> 0]
                  ELSE <<>>
  IN [c \in DOMAIN textPart \cup DOMAIN datePart |->
        IF c \in DOMAIN textPart THEN textPart[c] ELSE datePart[c]]

\* app.put('/api/tweets/:id')
PutTweets(id, raw, dateTime) ==
  /\ id \in DOMAIN tweets
  /\ DOMAIN PutUpdates(raw, dateTime) # {}
  /\ tweets' = updateTweet(tweets, id, PutUpdates(raw, dateTime))
  /\ budget.requests > 0
  /\ budget' = [budget EXCEPT !.requests = @ - 1]
  /\ UNCHANGED <<clock, env, nextId, rate_limits, limiter, postedHashes,
                 twitterClient, twitterIds, timerDue, firstTickRan, tick, failures, backoff>>


----------------------------------------------------------------------------
(* runScheduler: one step per await *)

\* runScheduler's failure branch: failed for good once tweet.attempts >= 4,
\* otherwise a nextRetryAt five minutes ahead
FailureUpdates(tweet, message) ==
  IF tweet.attempts >= MaxAttemptIndex
  THEN [attempts |-> tweet.attempts + 1, status |-> "failed", error |-> message]
  ELSE [attempts |-> tweet.attempts + 1, nextRetryAt |-> "later"]

\* the updates object with a success branch that does not count the attempt
SuccessKeepsAttempts(tweet, t) ==
  CASE t.result = "success" ->
         [attempts |-> tweet.attempts, status |-> "posted", tweetId |-> t.data]
    [] t.result = "dryRun" ->
         [attempts |-> tweet.attempts, status |-> "posted"]
    [] t.result = "duplicate" ->
         [attempts |-> tweet.attempts + 1, status |-> "posted"]
    [] t.result = "rateLimit" ->
         [attempts |-> tweet.attempts + 1, nextRetryAt |-> "reset"]
    [] t.result = "error" -> FailureUpdates(tweet, t.error)

\* the updates object with a duplicate branch that stores a tweetId
DuplicateStoresTweetId(tweet, t) ==
  CASE t.result = "success" ->
         [attempts |-> tweet.attempts + 1, status |-> "posted", tweetId |-> t.data]
    [] t.result = "dryRun" ->
         [attempts |-> tweet.attempts + 1, status |-> "posted"]
    [] t.result = "duplicate" ->
         [attempts |-> tweet.attempts + 1, status |-> "posted", tweetId |-> t.data]
    [] t.result = "rateLimit" ->
         [attempts |-> tweet.attempts + 1, nextRetryAt |-> "reset"]
    [] t.result = "error" -> FailureUpdates(tweet, t.error)

\* the updates object runScheduler builds from postTweet's result
ResultUpdates(tweet, t) ==
  CASE t.result = "success" ->
         [attempts |-> tweet.attempts + 1, status |-> "posted", tweetId |-> t.data]
    [] t.result = "dryRun" ->
         [attempts |-> tweet.attempts + 1, status |-> "posted"]
    [] t.result = "duplicate" ->
         [attempts |-> tweet.attempts + 1, status |-> "posted"]
    [] t.result = "rateLimit" ->
         [attempts |-> tweet.attempts + 1, nextRetryAt |-> "reset"]
    [] t.result = "error" -> FailureUpdates(tweet, t.error)

\* the head of postTweet for the next due tweet: the idempotency check, then
\* the bucket keys of now and the three ledger reads
BeginItem(t, due, now, hashes) ==
  IF due = <<>> THEN IdleTick
  ELSE IF generateContentHash(due[1].text) \in hashes
  THEN [t EXCEPT !.pc = "updateTweet", !.due = due, !.result = "duplicate"]
  ELSE [t EXCEPT !.pc = "getUsage", !.due = due, !.at = now, !.result = "none",
                 !.data = NoTweetId, !.error = NULL]

\* setTimeout(runScheduler, 1000) or the minute timer fires: loadTweets is called
StartTick(k) ==
  /\ timerDue
  /\ tick[k].pc = "idle"
  /\ \A j \in Ticks : j < k => tick[j].pc # "idle"
  /\ timerDue' = FALSE
  /\ firstTickRan' = TRUE
  /\ tick' = [tick EXCEPT ![k] = [IdleTick EXCEPT !.pc = "loadTweets",
                                                  !.first = ~firstTickRan]]
  /\ UNCHANGED <<clock, env, tweets, nextId, rate_limits, limiter, postedHashes,
                 twitterClient, twitterIds, budget, failures, backoff>>

\* loadTweets resolves: filter the due tweets and enter the loop
Loaded(k) ==
  /\ tick[k].pc = "loadTweets"
  /\ \E ids \in dueTweets(tweets, clock) :
       tick' = [tick EXCEPT ![k] =
                  BeginItem(tick[k], Snapshot(tweets, ids), clock, postedHashes)]
  /\ UNCHANGED <<clock, env, tweets, nextId, rate_limits, limiter, postedHashes,
                 twitterClient, twitterIds, timerDue, firstTickRan, budget, failures, backoff>>

\* postTweet's durable check on the three values read
DurableDenied(rl, at) ==
  \/ getRateLimitUsage(rl, "daily", at) >= TWEET_DAILY_LIMIT
  \/ getRateLimitUsage(rl, "hourly", at) >= TWEET_HOURLY_LIMIT
  \/ getRateLimitUsage(rl, "minute", at) >= TWEET_MINUTE_LIMIT

\* Promise.all of the three consume calls: each limiter is charged
consumeAll(lims, now) == [p \in Periods |-> consume(lims[p], p, now)]

\* the three reads resolve.  A durable denial has no resetTime: runScheduler's
\* new Date(NaN).toISOString() throws and the catch ends the tick.
GotUsage(k) ==
  /\ tick[k].pc = "getUsage"
  /\ IF DurableDenied(rate_limits, tick[k].at)
     THEN /\ tick' = [tick EXCEPT ![k] = IdleTick]
          /\ UNCHANGED limiter
     ELSE /\ limiter' = consumeAll(limiter, clock)
          /\ tick' = [tick EXCEPT ![k] =
                        IF \E p \in Periods : Rejected(limiter'[p])
                        THEN [@ EXCEPT !.pc = "updateTweet", !.result = "rateLimit"]
                        ELSE [@ EXCEPT !.pc = "updateUsage"]]
  /\ UNCHANGED <<clock, env, tweets, nextId, rate_limits, postedHashes,
                 twitterClient, twitterIds, timerDue, firstTickRan, budget, failures, backoff>>

\* the three ledger writes resolve; DRY_RUN, the client check, or the API call
UsageUpdated(k) ==
  /\ tick[k].pc = "updateUsage"
  /\ rate_limits' = updateAllUsage(rate_limits, tick[k].at)
  /\ IF env.DRY_RUN
     THEN /\ postedHashes' = postedHashes \cup {generateContentHash(tick[k].due[1].text)}
          /\ tick' = [tick EXCEPT ![k].pc = "updateTweet", ![k].result = "dryRun"]
     ELSE IF ~twitterClient
     THEN /\ tick' = [tick EXCEPT ![k].pc = "updateTweet", ![k].result = "error",
                                  ![k].error = "Twitter client not initialized"]
          /\ UNCHANGED postedHashes
     ELSE /\ tick' = [tick EXCEPT ![k].pc = "tweet"]
          /\ UNCHANGED postedHashes
  /\ UNCHANGED <<clock, env, tweets, nextId, limiter, twitterClient, twitterIds,
                 timerDue, firstTickRan, budget, failures, backoff>>

\* twitterClient.v2.tweet resolves with data
TweetPosted(k) ==
  /\ tick[k].pc = "tweet"
  /\ twitterIds' = twitterIds + 1
  /\ postedHashes' = postedHashes \cup {generateContentHash(tick[k].due[1].text)}
  /\ tick' = [tick EXCEPT ![k].pc = "updateTweet", ![k].result = "success",
                          ![k].data = twitterIds + 1]
  /\ UNCHANGED <<clock, env, tweets, nextId, rate_limits, limiter, twitterClient,
                 timerDue, firstTickRan, budget, failures, backoff>>

\* twitterClient.v2.tweet resolves without data: postTweet returns undefined,
\* result.success throws and the catch ends the tick
TweetNoData(k) ==
  /\ tick[k].pc = "tweet"
  /\ tick' = [tick EXCEPT ![k] = IdleTick]
  /\ UNCHANGED <<clock, env, tweets, nextId, rate_limits, limiter, postedHashes,
                 twitterClient, twitterIds, timerDue, firstTickRan, budget, failures, backoff>>

\* a rejected call that marks the content in postedHashes all the same
TweetFailedMarks(k, message) ==
  /\ tick[k].pc = "tweet"
  /\ postedHashes' = postedHashes \cup {generateContentHash(tick[k].due[1].text)}
  /\ tick' = [tick EXCEPT ![k].pc = "updateTweet", ![k].result = "error",
                          ![k].error = message]
  /\ failures' = [i \in DOMAIN failures |->
                    IF i = tick[k].due[1].id THEN failures[i] + 1 ELSE failures[i]]
  /\ UNCHANGED <<clock, env, tweets, nextId, rate_limits, limiter,
                 twitterClient, twitterIds, timerDue, firstTickRan, budget, backoff>>

\* twitterClient.v2.tweet rejects
TweetFailed(k, message) ==
  /\ tick[k].pc = "tweet"
  /\ tick' = [tick EXCEPT ![k].pc = "updateTweet", ![k].result = "error",
                          ![k].error = message]
  /\ failures' = [i \in DOMAIN failures |->
                    IF i = tick[k].due[1].id THEN failures[i] + 1 ELSE failures[i]]
  /\ UNCHANGED <<clock, env, tweets, nextId, rate_limits, limiter, postedHashes,
                 twitterClient, twitterIds, timerDue, firstTickRan, budget, backoff>>

\* updateTweet resolves; the loop goes on to the next due tweet
TweetUpdated(k) ==
  /\ tick[k].pc = "updateTweet"
  /\ tweets' = updateTweet(tweets, tick[k].due[1].id,
                           ResultUpdates(tick[k].due[1], tick[k]))
  /\ tick' = [tick EXCEPT ![k] = BeginItem(tick[k], Tail(tick[k].due), clock, postedHashes)]
  /\ UNCHANGED <<clock, env, nextId, rate_limits, limiter, postedHashes,
                 twitterClient, twitterIds, timerDue, firstTickRan, budget, failures, backoff>>

----------------------------------------------------------------------------
(* Time and the process *)

\* the clock moves on one slot; limiter records past their expiry are deleted;
\* entering a new minute makes the minute timer due
AdvanceClock ==
  /\ budget.slots > 0
  /\ budget' = [budget EXCEPT !.slots = @ - 1]
  /\ ~timerDue
  /\ clock' = clock + 1
  /\ limiter' = expire(limiter, clock + 1)
  /\ timerDue' = ((clock + 1) % SlotsPerMinute = 0)
  /\ UNCHANGED <<env, tweets, nextId, rate_limits, postedHashes, twitterClient,
                 twitterIds, firstTickRan, tick, failures, backoff>>

\* the process exits (SIGINT, SIGTERM, crash) and startServer runs again
Restart ==
  /\ clock' = clock
  /\ env' = env
  /\ limiter' = initializeRateLimiters(rate_limits, clock)
  /\ postedHashes' = {}
  /\ twitterClient' = initializeTwitterClient(env)
  /\ timerDue' = TRUE
  /\ firstTickRan' = FALSE
  /\ tick' = [k \in Ticks |-> IdleTick]
  /\ budget.restarts > 0
  /\ budget' = [budget EXCEPT !.restarts = @ - 1]
  /\ UNCHANGED <<tweets, nextId, rate_limits, twitterIds, failures, backoff>>

Next ==
  \/ \E raw \in RawTexts, d \in DateTimes \cup {BadDate} : PostTweets(raw, d)
  \/ \E id \in Ids : DeleteTweets(id)
  \/ \E id \in Ids, raw \in RawTexts \cup {NULL}, d \in DateTimes \cup {NoDate, BadDate} :
       PutTweets(id, raw, d)
  \/ \E k \in Ticks : StartTick(k)
  \/ \E k \in Ticks : Loaded(k)
  \/ \E k \in Ticks : GotUsage(k)
  \/ \E k \in Ticks : UsageUpdated(k)
  \/ \E k \in Ticks : TweetPosted(k)
  \/ \E k \in Ticks : TweetNoData(k)
  \/ \E k \in Ticks, m \in ErrorMessages : TweetFailed(k, m)
  \/ \E k \in Ticks : TweetUpdated(k)
  \/ AdvanceClock
  \/ Restart

Spec == Init /\ [][Next]_vars


----------------------------------------------------------------------------
(* Claims checked under Spec *)

Terminal(row) == row.status \in {"posted", "failed"}

PostedWithId(row) == row.status = "posted" /\ row.tweetId # NoTweetId

\* the process that started in the initial state is still running; no row of
\* an initial store is 'posted', so every posted row was posted by this process
FirstLifetime == budget.restarts = MaxRestarts

\* C1: within one process lifetime, among the stored tweets with identical
\* content at most one is 'posted' with a non-null tweetId.
C1_NoDuplicateDispatch ==
  FirstLifetime =>
    \A i, j \in DOMAIN tweets :
      (i # j /\ tweets[i].text = tweets[j].text)
        => ~(PostedWithId(tweets[i]) /\ PostedWithId(tweets[j]))

\* C4: a step that changes a row whose status is 'posted' or 'failed' is an
\* edit request (PUT) for that row; no step of a tick changes such a row.
C4_TerminalStable ==
  [][\A id \in DOMAIN tweets :
       (Terminal(tweets[id]) /\ id \in DOMAIN tweets' /\ tweets'[id] # tweets[id])
         => \E raw \in RawTexts \cup {NULL}, d \in DateTimes \cup {NoDate, BadDate} :
              PutTweets(id, raw, d)]_vars

\* the process was not restarted in this step
SameProcess == budget'.restarts = budget.restarts

\* C5: the first tick after startup selects every stored pending tweet whose
\* runAt has passed, with the attempts stored for it, and passes every one of
\* them to postTweet: it does not end while due tweets are left behind its
\* current one.
C5_FirstTickProcessesAll ==
  [][\A k \in Ticks :
       /\ (Loaded(k) /\ tick[k].first)
            => /\ {tick'[k].due[i].id : i \in 1..Len(tick'[k].due)}
                    = {id \in DOMAIN tweets :
                         tweets[id].status = "pending" /\ tweets[id].runAt <= clock}
               /\ \A i \in 1..Len(tick'[k].due) :
                    tick'[k].due[i].attempts = tweets[tick'[k].due[i].id].attempts
       /\ (tick[k].first /\ tick[k].pc # "idle" /\ tick'[k].pc = "idle" /\ SameProcess)
            => Len(tick[k].due) <= 1]_vars

\* remaining points of a limiter: points minus the points consumed in its window
Remaining(lim) == Max(0, lim.points - lim.consumed)

\* C6: a restart while no tick is in flight (the clock stays where it is, so
\* in the same buckets) leaves the remaining budget of each of the three
\* limiters as it was.
C6_RestartKeepsRemaining ==
  [][(~SameProcess /\ \A k \in Ticks : tick[k].pc = "idle")
       => \A p \in Periods : Remaining(limiter'[p]) = Remaining(limiter[p])]_vars

\* C7: when a tick persists the outcome of a tweet it loaded with attempts = 0
\* and whose publish call succeeded or was simulated, the stored tweet has
\* status 'posted' and attempts = 1.
C7_SuccessPosted ==
  [][\A k \in Ticks :
       (/\ TweetUpdated(k)
        /\ tick[k].result \in {"success", "dryRun"}
        /\ tick[k].due[1].attempts = 0
        /\ tick[k].due[1].id \in DOMAIN tweets)
         => /\ tweets'[tick[k].due[1].id].status = "posted"
            /\ tweets'[tick[k].due[1].id].attempts = 1]_vars

\* C7 witness: a tick has just persisted the success of a tweet loaded with
\* attempts = 0: the row is posted with the id the API returned and attempts 1.
C7_Witness ==
  \E id \in DOMAIN tweets :
    /\ tweets[id].status = "posted"
    /\ tweets[id].attempts = 1
    /\ tweets[id].tweetId # NoTweetId
    /\ generateContentHash(tweets[id].text) \in postedHashes

\* C9: a PUT with a valid dateTime on a 'failed' tweet leaves it 'pending'
\* with attempts = 0 and error = null.
C9_EditFailedResets ==
  [][\A id \in DOMAIN tweets, raw \in RawTexts \cup {NULL}, d \in DateTimes :
       (tweets[id].status = "failed" /\ PutTweets(id, raw, d))
         => /\ tweets'[id].status = "pending"
            /\ tweets'[id].attempts = 0
            /\ tweets'[id].error = NULL]_vars

----------------------------------------------------------------------------
(* A backlog: more due tweets than the minute limit, no usage recorded *)

BacklogTexts == <<"a", "b", "c", "d", "e", "f">>

BacklogSize == TWEET_MINUTE_LIMIT + BacklogExtra

\* the last slot of the first minute of the second day
BacklogClock == SlotsPerDay + SlotsPerMinute - 1

\* rows created by POST /api/tweets with dateTimes that have passed
Backlog ==
  [i \in 1..BacklogSize |->
     [text |-> BacklogTexts[i], runAt |-> PastDate + i - 1, status |-> "pending",
      attempts |-> 0, tweetId |-> NoTweetId, error |-> NULL]]

InitBacklog ==
  /\ \E e \in {x \in Envs : x.DRY_RUN \/ x.credentials} :
       Started(e, Backlog, <<>>, BacklogClock, NumTicks)
  /\ budget = [requests |-> 0, restarts |-> 0, slots |-> SlotsPerMinute]
  /\ failures = <<>>
  /\ backoff = NoBackoff

\* every publish call succeeds or is simulated
NextBacklog ==
  \/ \E k \in Ticks : StartTick(k)
  \/ \E k \in Ticks : Loaded(k)
  \/ \E k \in Ticks : GotUsage(k)
  \/ \E k \in Ticks : UsageUpdated(k)
  \/ \E k \in Ticks : TweetPosted(k)
  \/ \E k \in Ticks : TweetUpdated(k)
  \/ AdvanceClock

SpecBacklog == InitBacklog /\ [][NextBacklog]_vars

\* C2: the used counter of every rate_limits row is at most the limit of the
\* row's period.
C2_UsedWithinLimit ==
  \A key \in DOMAIN rate_limits : rate_limits[key] <= Limit(key[1])

\* the first tick has ended, no other tick has started and the clock has not moved
SingleTickDone ==
  /\ firstTickRan
  /\ ~timerDue
  /\ clock = BacklogClock
  /\ \A k \in Ticks : tick[k].pc = "idle"

\* C3: after the single tick that found limit + k due tweets and no usage,
\* exactly `limit` tweets are 'posted' and every other tweet is 'pending'
\* with a nextRetryAt.
C3_BacklogDeferred ==
  SingleTickDone =>
    /\ Cardinality({id \in DOMAIN tweets : tweets[id].status = "posted"})
         = TWEET_MINUTE_LIMIT
    /\ \A id \in DOMAIN tweets :
         tweets[id].status # "posted"
           => tweets[id].status = "pending" /\ nextRetryAtOf(tweets[id]) # NULL

----------------------------------------------------------------------------
(* A tweet whose every publish call is rejected with 429; each tick ends     *)
(* before the next timer fires                                              *)

RetryClock == SlotsPerDay

\* the publish calls a tweet may take: tweet.attempts 0..4
MaxAttempts == MaxAttemptIndex + 1

InitRetry ==
  /\ Started([DRY_RUN |-> FALSE, credentials |-> TRUE],
             (1 :> [text |-> "a", runAt |-> PastDate, status |-> "pending",
                    attempts |-> 0, tweetId |-> NoTweetId, error |-> NULL]),
             <<>>, RetryClock, 1)
  /\ budget = [requests |-> 0, restarts |-> 0, slots |-> RetryMinutes * SlotsPerMinute]
  /\ failures = (1 :> 0)
  /\ backoff = NoBackoff

NextRetry ==
  \/ \E k \in Ticks : StartTick(k)
  \/ \E k \in Ticks : Loaded(k)
  \/ \E k \in Ticks : GotUsage(k)
  \/ \E k \in Ticks : UsageUpdated(k)
  \/ \E k \in Ticks : TweetFailed(k, "429")
  \/ \E k \in Ticks : TweetUpdated(k)
  \/ AdvanceClock

SpecRetry == InitRetry /\ [][NextRetry]_vars

\* C8: the publish call is rejected at most five times for the tweet, and
\* once the outcome of the fifth rejection is persisted the tweet is 'failed'
\* with attempts = 5 and an error.
C8_FailedAfterFive ==
  \A id \in DOMAIN failures :
    /\ failures[id] <= MaxAttempts
    /\ (failures[id] = MaxAttempts /\ \A k \in Ticks : tick[k].pc = "idle")
         => /\ id \in DOMAIN tweets
            /\ tweets[id].status = "failed"
            /\ tweets[id].attempts = MaxAttempts
            /\ tweets[id].error # NULL

\* the publish calls a stored row has left before it is 'failed'
RetriesLeft(row) == IF row.status = "failed" THEN 0 ELSE MaxAttempts - row.attempts

\* C24: every rejected publish call whose outcome is persisted leaves the
\* tweet with fewer retries left than before, so that the tweet is 'failed'
\* after at most five calls; the publish call is never rejected a sixth time.
C24_RetriesTerminate ==
  /\ [](\A id \in DOMAIN failures : failures[id] <= MaxAttempts)
  /\ [][\A k \in Ticks :
         (TweetUpdated(k) /\ tick[k].result = "error"
            /\ tick[k].due[1].id \in DOMAIN tweets)
           => RetriesLeft(tweets'[tick[k].due[1].id])
                < RetriesLeft(tweets[tick[k].due[1].id])]_vars

\* the nextRetryAt of runScheduler's failure branch lies five minutes after now
RetryDelay == RetryDelayMinutes * SlotsPerMinute

\* C11: a tick selects only rows that are 'pending' with runAt <= now, and a
\* tweet that a failed publish call deferred to a nextRetryAt five minutes
\* ahead is not in a publish call again before that instant.
C11_DeferredNotDispatched ==
  /\ [](\A k \in Ticks :
          (tick[k].pc = "tweet" /\ failures[tick[k].due[1].id] >= 1)
            => tick[k].at >= RetryClock + RetryDelay)
  /\ [][\A k \in Ticks :
          Loaded(k) =>
            \A i \in 1..Len(tick'[k].due) :
              /\ tweets[tick'[k].due[i].id].status = "pending"
              /\ tweets[tick'[k].due[i].id].runAt <= clock]_vars

----------------------------------------------------------------------------
(* app.js: the delays of postTweet's retries *)

BackoffBases == {RATE_LIMIT_BACKOFF_BASE, ServerErrorBase}

\* the delay computed in the catch block for a failure of call number attempt
InitBackoff ==
  /\ Started([DRY_RUN |-> FALSE, credentials |-> TRUE], <<>>, <<>>, StartClock, NumTicks)
  /\ budget = [requests |-> 0, restarts |-> 0, slots |-> 0]
  /\ failures = <<>>
  /\ \E attempt \in 0..MaxBackoffAttempt, base \in BackoffBases :
       backoff = [attempt |-> attempt, base |-> base,
                  delay |-> calculateBackoffDelay(attempt, base), slept |-> 0]

\* the sleep ends, the next call fails too and its delay is computed
RetryAgain ==
  /\ backoff.attempt < MaxBackoffAttempt
  /\ backoff' = [backoff EXCEPT
                   !.attempt = @ + 1,
                   !.delay = calculateBackoffDelay(backoff.attempt + 1, backoff.base),
                   !.slept = @ + backoff.delay]
  /\ UNCHANGED <<clock, env, tweets, nextId, rate_limits, limiter, postedHashes,
                 twitterClient, twitterIds, timerDue, firstTickRan, tick, budget,
                 failures>>

SpecBackoff == InitBackoff /\ [][RetryAgain]_vars

\* C10: the delay is min(base * 2^attempt, 300000) for every attempt >= 0 and
\* base in {1000, 5000}; it never exceeds 300000, it does not decrease from
\* one attempt to the next, and base 1000 gives 1000, 2000, 4000, 8000.
C10_BackoffDelay ==
  /\ [](/\ backoff.delay = Min(backoff.base * 2^backoff.attempt, 300000)
        /\ backoff.delay <= 300000
        /\ (backoff.base = 1000 /\ backoff.attempt <= 3)
             => backoff.delay = <<1000, 2000, 4000, 8000>>[backoff.attempt + 1])
  /\ [][backoff'.attempt = backoff.attempt + 1
          => backoff'.delay >= backoff.delay]_vars

\* C10 witness: a retry has slept and the delay of the next one is at the cap
C10_Witness ==
  /\ backoff.slept > 0
  /\ 2 * backoff.delay > BackoffCap
  /\ backoff.delay = BackoffCap

----------------------------------------------------------------------------
(* Further claims checked under Spec *)

\* C12: a tick ends only after the last tweet of its due set: whatever
\* happened to a tweet, the tweets behind it in the due set are processed.
C12_LoopNeverAborts ==
  [][\A k \in Ticks :
       (tick[k].pc # "idle" /\ tick'[k].pc = "idle" /\ SameProcess)
         => Len(tick[k].due) <= 1]_vars

\* the rate check has just denied the tweet tick k is at: a durable counter
\* at its limit ends the tick, a rejecting limiter yields a rateLimit result
Denied(k) ==
  /\ GotUsage(k)
  /\ tick'[k].pc # "updateUsage"

\* C13: the step that denies a tweet and the step that persists the denial
\* leave every stored row as it was (attempts and status included), and the
\* tick does not go on to the publish call for that tweet.
C13_DenialNotAnAttempt ==
  [][\A k \in Ticks :
       /\ Denied(k) => (tweets' = tweets /\ tick'[k].pc \in {"idle", "updateTweet"})
       /\ (TweetUpdated(k) /\ tick[k].result = "rateLimit")
            => /\ tweets' = tweets
               /\ twitterIds' = twitterIds
               /\ (tick'[k].pc # "idle" => tick'[k].due = Tail(tick[k].due))]_vars

\* C13 witness: a tick holds the rateLimit result of a limiter rejection for
\* a stored tweet that is still pending with the attempts the tick loaded.
C13_Witness ==
  \E k \in Ticks :
    /\ tick[k].pc = "updateTweet"
    /\ tick[k].result = "rateLimit"
    /\ tick[k].due[1].id \in DOMAIN tweets
    /\ tweets[tick[k].due[1].id].status = "pending"
    /\ tweets[tick[k].due[1].id].attempts = tick[k].due[1].attempts

\* postTweet reached twitterClient.v2.tweet for the result tick record t holds
PublishCalled(t) ==
  \/ t.result = "success"
  \/ t.result = "error" /\ t.error \in ErrorMessages

\* C14: when a tick persists the outcome of a publish call, the stored
\* attempts goes up by exactly 1, whether the call succeeded or failed; a
\* tick never lowers attempts and raises it only for a dispatch attempt (a
\* publish call made or simulated, or refused for want of a client).
C14_AttemptsCountCalls ==
  [][\A k \in Ticks :
       (TweetUpdated(k) /\ tick[k].due[1].id \in DOMAIN tweets)
         => LET id == tick[k].due[1].id
            IN /\ PublishCalled(tick[k])
                    => tweets'[id].attempts = tweets[id].attempts + 1
               /\ tweets'[id].attempts >= tweets[id].attempts
               /\ tweets'[id].attempts > tweets[id].attempts
                    => tick[k].result \in {"success", "dryRun", "error"}]_vars

\* error codes that are neither 429 nor 5xx
FatalErrors == ErrorMessages \ {"429", "500"}

\* C15: when a tick persists a publish failure whose status code is neither
\* 429 nor 5xx, the stored tweet is 'failed', whatever its attempts were.
C15_FatalFailsAtOnce ==
  [][\A k \in Ticks :
       (/\ TweetUpdated(k)
        /\ tick[k].result = "error"
        /\ tick[k].error \in FatalErrors
        /\ tick[k].due[1].id \in DOMAIN tweets)
         => tweets'[tick[k].due[1].id].status = "failed"]_vars

\* C16: a step raises a rate_limits counter only if in that step a publish
\* call succeeds or is simulated; an attempt that passes the rate check and
\* then fails leaves the counters as they were.
C16_UsageCountsSuccesses ==
  [][rate_limits' # rate_limits
       => \E k \in Ticks :
            /\ tick[k].pc # "updateTweet"
            /\ tick'[k].pc = "updateTweet"
            /\ tick'[k].result \in {"success", "dryRun"}]_vars

\* none of the three buckets of instant at has a ledger row
FreshBuckets(rl, at) == \A p \in Periods : BucketKey(p, at) \notin DOMAIN rl

\* C17: an attempt whose daily, hourly and minute buckets have no ledger row
\* is allowed by the rate check, whatever was used in earlier buckets and
\* whatever the limiters were initialised with.
C17_FreshBucketAllows ==
  [][\A k \in Ticks :
       (GotUsage(k) /\ FreshBuckets(rate_limits, tick[k].at))
         => tick'[k].pc = "updateUsage"]_vars

\* postTweet has just found the hash of the tweet tick k is at in postedHashes
DuplicateFound(k) ==
  /\ tick'[k] # tick[k]
  /\ tick'[k].pc = "updateTweet"
  /\ tick'[k].result = "duplicate"

\* C18: finding a duplicate and persisting it change no limiter, no ledger
\* row and make no publish call; the persisting step stores status 'posted'
\* and leaves the row's tweetId as it was.
C18_DuplicateSkipped ==
  [][\A k \in Ticks :
       /\ DuplicateFound(k)
            => /\ limiter' = limiter
               /\ rate_limits' = rate_limits
               /\ twitterIds' = twitterIds
       /\ (TweetUpdated(k) /\ tick[k].result = "duplicate")
            => /\ limiter' = limiter
               /\ rate_limits' = rate_limits
               /\ twitterIds' = twitterIds
               /\ tick[k].due[1].id \in DOMAIN tweets
                    => /\ tweets'[tick[k].due[1].id].status = "posted"
                       /\ tweets'[tick[k].due[1].id].tweetId
                            = tweets[tick[k].due[1].id].tweetId]_vars

\* C18 witness: with a real client, a row is 'posted' without a tweetId: a
\* tick found its text in postedHashes and persisted the skip.
C18_Witness ==
  /\ ~env.DRY_RUN
  /\ \E id \in DOMAIN tweets :
       /\ tweets[id].status = "posted"
       /\ tweets[id].tweetId = NoTweetId
       /\ generateContentHash(tweets[id].text) \in postedHashes

\* C19: a PUT carrying only a text leaves the row pending with attempts 0
\* and no error, whatever its status was.
C19_EditTextResets ==
  [][\A id \in DOMAIN tweets, raw \in RawTexts :
       PutTweets(id, raw, NoDate)
         => /\ tweets'[id].status = "pending"
            /\ tweets'[id].attempts = 0
            /\ tweets'[id].error = NULL]_vars

\* C20: an id that has been handed out and is no longer in the table never
\* comes back, whatever steps follow within the process or across restarts.
C20_DeletedStaysDeleted ==
  [][\A id \in 1..nextId :
       id \notin DOMAIN tweets => id \notin DOMAIN tweets']_vars

\* C20 witness: a tick is about to persist the outcome of a tweet it loaded
\* before the tweet was deleted.
C20_Witness ==
  \E k \in Ticks :
    /\ tick[k].pc = "updateTweet"
    /\ tick[k].due[1].id \in 1..nextId
    /\ tick[k].due[1].id \notin DOMAIN tweets

\* C21: the process does not exit while a tick holds the outcome of a publish
\* call it has not yet persisted.
C21_ShutdownDrains ==
  [][Restart => \A k \in Ticks :
       ~(tick[k].pc = "updateTweet" /\ PublishCalled(tick[k]))]_vars

\* the environment has DRY_RUN off and no credentials
MissingCredentials == ~env.DRY_RUN /\ ~env.credentials

\* C22: with DRY_RUN off and credentials missing the process serves no
\* request, runs no tick and writes no ledger row.
C22_NoStartWithoutCredentials ==
  /\ [](MissingCredentials => /\ \A k \in Ticks : tick[k].pc = "idle"
                               /\ budget.requests = MaxRequests)
  /\ [][MissingCredentials => rate_limits' = rate_limits]_vars

\* checkRateLimits: per period the ledger's used plus the limiter record's
\* consumedPoints, and what is left of the limit
checkRateLimits(rl, lims, now) ==
  [p \in Periods |->
     LET totalUsed == getRateLimitUsage(rl, p, now)
                        + (IF Live(lims[p], now) THEN lims[p].consumed ELSE 0)
     IN [remaining |-> Max(0, Limit(p) - totalUsed),
         used |-> totalUsed,
         limit |-> Limit(p)]]

\* C23: while no tick is in flight the snapshot reports, for each period, the
\* ledger's used of the current bucket and remaining = max(0, limit - used).
C23_SnapshotMatchesLedger ==
  (\A k \in Ticks : tick[k].pc = "idle")
    => \A p \in Periods :
         LET snapshot == checkRateLimits(rate_limits, limiter, clock)[p]
         IN /\ snapshot.used = getRateLimitUsage(rate_limits, p, clock)
            /\ snapshot.remaining = Max(0, Limit(p) - snapshot.used)

\* the executions of runScheduler in progress
InFlight == {k \in Ticks : tick[k].pc # "idle"}

\* C25: at most one execution of runScheduler is in progress.
C25_OneTickAtATime == Cardinality(InFlight) <= 1

\* C26: a publish call that succeeds is for content whose fingerprint is not
\* yet in postedHashes, i.e. content this process has not published before.
C26_CheckAndMarkAtomic ==
  [][\A k \in Ticks :
       TweetPosted(k)
         => generateContentHash(tick[k].due[1].text) \notin postedHashes]_vars

----------------------------------------------------------------------------
(* The ledger at, below and above the three limits when a tick dispatches *)

\* the three comparisons made minute first
minuteFirstDenial(rl, at) ==
  IF getRateLimitUsage(rl, "minute", at) >= TWEET_MINUTE_LIMIT THEN "minute"
  ELSE IF getRateLimitUsage(rl, "hourly", at) >= TWEET_HOURLY_LIMIT THEN "hourly"
  ELSE IF getRateLimitUsage(rl, "daily", at) >= TWEET_DAILY_LIMIT THEN "daily"
  ELSE "none"

\* postTweet's durable check: the limit named by the message of the denial it
\* returns ('Gunluk', 'Saatlik', 'Dakikalik tweet limiti asildi'), "none"
\* when it goes on to the limiters
durableDenial(rl, at) ==
  IF getRateLimitUsage(rl, "daily", at) >= TWEET_DAILY_LIMIT THEN "daily"
  ELSE IF getRateLimitUsage(rl, "hourly", at) >= TWEET_HOURLY_LIMIT THEN "hourly"
  ELSE IF getRateLimitUsage(rl, "minute", at) >= TWEET_MINUTE_LIMIT THEN "minute"
  ELSE "none"

\* used counters a ledger can hold for the buckets of one instant: every
\* attempt is counted in the minute, in its hour and in its day
LedgerUsed ==
  {u \in [Periods -> {0, TWEET_MINUTE_LIMIT, TWEET_HOURLY_LIMIT, TWEET_DAILY_LIMIT}] :
     /\ u["minute"] <= TWEET_MINUTE_LIMIT
     /\ u["hourly"] <= TWEET_HOURLY_LIMIT
     /\ u["minute"] <= u["hourly"]
     /\ u["hourly"] <= u["daily"]}

\* the rate_limits rows of the buckets of now
LedgerRows(u, now) ==
  [key \in {BucketKey(p, now) : p \in {q \in Periods : u[q] > 0}} |-> u[key[1]]]

LimitsTweets ==
  { (1 :> [text |-> "a", runAt |-> PastDate, status |-> "pending",
           attempts |-> 0, tweetId |-> NoTweetId, error |-> NULL]),
    (1 :> [text |-> "a", runAt |-> PastDate, status |-> "pending",
           attempts |-> 0, tweetId |-> NoTweetId, error |-> NULL])
      @@ (2 :> [text |-> "b", runAt |-> PastDate, status |-> "pending",
                attempts |-> 0, tweetId |-> NoTweetId, error |-> NULL]) }

InitLimits ==
  /\ \E u \in LedgerUsed, tw \in LimitsTweets :
       Started([DRY_RUN |-> TRUE, credentials |-> FALSE], tw,
               LedgerRows(u, RetryClock), RetryClock, 1)
  /\ budget = [requests |-> 0, restarts |-> 0, slots |-> SlotsPerMinute]
  /\ failures = <<>>
  /\ backoff = NoBackoff

NextLimits ==
  \/ \E k \in Ticks : StartTick(k)
  \/ \E k \in Ticks : Loaded(k)
  \/ \E k \in Ticks : GotUsage(k)
  \/ \E k \in Ticks : UsageUpdated(k)
  \/ \E k \in Ticks : TweetUpdated(k)
  \/ AdvanceClock

SpecLimits == InitLimits /\ [][NextLimits]_vars

Exhausted(p, rl, at) == getRateLimitUsage(rl, p, at) >= Limit(p)

----------------------------------------------------------------------------
(* app.js: one run of runScheduler over schedule.json.  tweets is the file, *)
(* the tick holds the schedule array in memory, backoff the retries of the  *)
(* postTweet call in progress                                               *)

MAX_RETRIES == 5

AppFields == {"text", "runAt", "status", "attempts", "tweetId", "error", "nextAttemptAt"}

AppIdle == [pc |-> "idle", due |-> <<>>, schedule |-> <<>>]

\* updateScheduleItem: {...item, ...updates} for the item with that id
updateScheduleItem(schedule, itemId, updates) ==
  IF itemId \notin DOMAIN schedule THEN schedule
  ELSE [schedule EXCEPT ![itemId] =
          [f \in AppFields |->
             IF f \in DOMAIN updates THEN updates[f] ELSE schedule[itemId][f]]]

\* statusCode >= 500 || statusCode === 429
isRetryable(message) == message \in {"429", "500"}

\* the base of the delay: the default for a 429, 5000 for a server error
baseDelay(message) ==
  IF message = "429" THEN RATE_LIMIT_BACKOFF_BASE ELSE ServerErrorBase

\* runScheduler's failure branch: nextAttemptAt is kept as the delay added
\* to the run's now
AppFailureUpdates(tweet, message) ==
  IF tweet.attempts >= MAX_RETRIES - 1
  THEN [attempts |-> tweet.attempts + 1, status |-> "failed", error |-> message]
  ELSE [attempts |-> tweet.attempts + 1, status |-> "pending",
        nextAttemptAt |-> calculateBackoffDelay(tweet.attempts, RATE_LIMIT_BACKOFF_BASE)]

\* the loop up to the next item that needs the API: duplicates and DRY_RUN
\* items are marked 'posted' in the array without an await on the network
RECURSIVE AppLoop(_, _, _, _)
AppLoop(due, schedule, hashes, dry) ==
  IF due = <<>> THEN [due |-> due, schedule |-> schedule, hashes |-> hashes]
  ELSE IF generateContentHash(due[1].text) \in hashes \/ dry
  THEN AppLoop(Tail(due),
               updateScheduleItem(schedule, due[1].id,
                 [attempts |-> due[1].attempts + 1, status |-> "posted"]),
               hashes \cup {generateContentHash(due[1].text)}, dry)
  ELSE [due |-> due, schedule |-> schedule, hashes |-> hashes]

\* the loop goes on with the items in due; after the last one the array is
\* written to schedule.json
AppContinue(due, schedule, hashes) ==
  LET r == AppLoop(due, schedule, hashes, env.DRY_RUN)
  IN /\ postedHashes' = r.hashes
     /\ backoff' = NoBackoff
     /\ IF r.due = <<>>
        THEN /\ tweets' = r.schedule
             /\ tick' = [k \in Ticks |-> AppIdle]
        ELSE /\ tweets' = tweets
             /\ tick' = [k \in Ticks |->
                           [pc |-> "tweet", due |-> r.due, schedule |-> r.schedule]]

\* the due items in the order of the array
AppDue(tw, now) ==
  CHOOSE s \in dueTweets(tw, now) : \A i, j \in 1..Len(s) : i < j => s[i] < s[j]

\* node app.js: a new process reads schedule.json and filters the due items
AppRun(k) ==
  /\ tick[k].pc = "idle"
  /\ \E i \in DOMAIN tweets : IsDue(tweets[i], clock)
  /\ AppContinue(Snapshot(tweets, AppDue(tweets, clock)), tweets, {})
  /\ UNCHANGED <<clock, env, nextId, rate_limits, limiter, twitterClient, twitterIds,
                 timerDue, firstTickRan, budget, failures>>

\* client.v2.tweet resolves with data
AppTweetPosted(k) ==
  /\ tick[k].pc = "tweet"
  /\ twitterIds' = twitterIds + 1
  /\ AppContinue(Tail(tick[k].due),
                 updateScheduleItem(tick[k].schedule, tick[k].due[1].id,
                   [attempts |-> tick[k].due[1].attempts + 1, status |-> "posted",
                    tweetId |-> twitterIds + 1]),
                 postedHashes \cup {generateContentHash(tick[k].due[1].text)})
  /\ UNCHANGED <<clock, env, nextId, rate_limits, limiter, twitterClient,
                 timerDue, firstTickRan, budget, failures>>

\* the process ends without writing the file: process.exit(1) of the catch
\* after a response without data, or process.exit(0) of a signal handler
AppExit(k) ==
  /\ tick[k].pc # "idle"
  /\ budget.restarts > 0
  /\ budget' = [budget EXCEPT !.restarts = @ - 1]
  /\ tick' = [j \in Ticks |-> AppIdle]
  /\ postedHashes' = {}
  /\ backoff' = NoBackoff
  /\ UNCHANGED <<clock, env, tweets, nextId, rate_limits, limiter, twitterClient,
                 twitterIds, timerDue, firstTickRan, failures>>

\* client.v2.tweet rejects: sleep and call again while retryable and
\* attempt < MAX_RETRIES, otherwise the failure goes back to the loop
AppTweetFailed(k, message) ==
  /\ tick[k].pc = "tweet"
  /\ IF isRetryable(message) /\ backoff.attempt < MAX_RETRIES
     THEN /\ backoff' = [backoff EXCEPT
                           !.base = baseDelay(message),
                           !.delay = calculateBackoffDelay(backoff.attempt,
                                                           baseDelay(message))]
          /\ tick' = [tick EXCEPT ![k].pc = "sleep"]
          /\ UNCHANGED <<tweets, postedHashes>>
     ELSE AppContinue(Tail(tick[k].due),
                      updateScheduleItem(tick[k].schedule, tick[k].due[1].id,
                        AppFailureUpdates(tick[k].due[1], message)),
                      postedHashes)
  /\ UNCHANGED <<clock, env, nextId, rate_limits, limiter, twitterClient, twitterIds,
                 timerDue, firstTickRan, budget, failures>>

\* the setTimeout of the retry fires: postTweet(tweetData, attempt + 1)
AppSlept(k) ==
  /\ tick[k].pc = "sleep"
  /\ backoff' = [backoff EXCEPT !.attempt = @ + 1, !.slept = @ + backoff.delay]
  /\ tick' = [tick EXCEPT ![k].pc = "tweet"]
  /\ UNCHANGED <<clock, env, tweets, nextId, rate_limits, limiter, postedHashes,
                 twitterClient, twitterIds, timerDue, firstTickRan, budget, failures>>

\* schedule.json files of two pending due items
AppSchedules ==
  {[i \in 1..2 |-> [text |-> texts[i], runAt |-> PastDate, status |-> "pending",
                    attempts |-> att[i], tweetId |-> NoTweetId, error |-> NULL,
                    nextAttemptAt |-> 0]] :
     texts \in [1..2 -> {"a", "b"}], att \in [1..2 -> {0, MAX_RETRIES - 1}]}

InitApp ==
  /\ clock = RetryClock
  /\ env \in {e \in Envs : e.DRY_RUN \/ e.credentials}
  /\ tweets \in AppSchedules
  /\ nextId = 2
  /\ rate_limits = <<>>
  /\ limiter = initializeRateLimiters(<<>>, RetryClock)
  /\ postedHashes = {}
  /\ twitterClient = initializeTwitterClient(env)
  /\ twitterIds = 0
  /\ timerDue = FALSE
  /\ firstTickRan = FALSE
  /\ tick = [k \in 1..1 |-> AppIdle]
  /\ budget = [requests |-> 0, restarts |-> MaxRestarts, slots |-> 0]
  /\ failures = <<>>
  /\ backoff = NoBackoff

NextApp ==
  \/ \E k \in Ticks : AppRun(k)
  \/ \E k \in Ticks : AppTweetPosted(k)
  \/ \E k \in Ticks, m \in ErrorMessages : AppTweetFailed(k, m)
  \/ \E k \in Ticks : AppSlept(k)
  \/ \E k \in Ticks : AppExit(k)

SpecApp == InitApp /\ [][NextApp]_vars

\* C28: a run calls the publish operation once per due item: no call in
\* progress is a repeated call, and the run never sleeps between calls.
C28_OneCallPerItem ==
  \A k \in Ticks :
    /\ tick[k].pc # "sleep"
    /\ tick[k].pc = "tweet" => backoff.attempt = 0

\* C29: while a run is at the publish call of an item (or asleep before
\* repeating it), every item it has already marked 'posted' is 'posted' in
\* the file.
C29_PersistedBeforeNext ==
  \A k \in Ticks :
    tick[k].pc \in {"tweet", "sleep"}
      => \A id \in DOMAIN tweets :
           tick[k].schedule[id].status = "posted" => tweets[id].status = "posted"

----------------------------------------------------------------------------
(* server.js: the nextRetryAt of a failed publish call, checked under SpecRetry *)

\* runScheduler's failure branch: now.getTime() + (5 * 60 * 1000), whatever
\* the tweet's attempts and the error; the milliseconds added to now
nextRetryDelay(tweet, message) == RetryDelayMinutes * 60 * 1000

\* C30: persisting a retryable failure of a tweet with attempts left stores
\* the tweet 'pending' with a nextRetryAt that lies
\* min(base * 2^attempts, 300000) ms after now, base 1000 for a 429 and 5000
\* for a server error.
C30_RetryAtBackoff ==
  [][\A k \in Ticks :
       (/\ TweetUpdated(k)
        /\ tick[k].result = "error"
        /\ isRetryable(tick[k].error)
        /\ tick[k].due[1].attempts < MaxAttemptIndex
        /\ tick[k].due[1].id \in DOMAIN tweets)
         => /\ tweets'[tick[k].due[1].id].status = "pending"
            /\ nextRetryAtOf(tweets'[tick[k].due[1].id]) # NULL
            /\ nextRetryDelay(tick[k].due[1], tick[k].error)
                 = Min(baseDelay(tick[k].error) * 2^tick[k].due[1].attempts,
                       BackoffCap)]_vars

----------------------------------------------------------------------------
(* Further claims checked under Spec: order, errors, edits *)

\* C31: the due tweets a tick has loaded stand in ascending runAt order, and
\* tweets with the same runAt in ascending id order.
C31_DueOrder ==
  [][\A k \in Ticks :
       Loaded(k)
         => \A i, j \in 1..Len(tick'[k].due) :
              i < j
                => \/ tweets[tick'[k].due[i].id].runAt < tweets[tick'[k].due[j].id].runAt
                   \/ /\ tweets[tick'[k].due[i].id].runAt = tweets[tick'[k].due[j].id].runAt
                      /\ tick'[k].due[i].id < tick'[k].due[j].id]_vars

\* C32: a tweet whose status is 'posted' has no error.
C32_PostedHasNoError ==
  \A id \in DOMAIN tweets :
    tweets[id].status = "posted" => tweets[id].error = NULL

----------------------------------------------------------------------------
(* One pending tweet in DRY_RUN, one tick per minute, over several minutes  *)
(* after a start with the buckets of the first minute empty or full         *)

InitStarve ==
  /\ \E u \in InitUsed :
       Started([DRY_RUN |-> TRUE, credentials |-> FALSE],
               (1 :> [text |-> "a", runAt |-> PastDate, status |-> "pending",
                      attempts |-> 0, tweetId |-> NoTweetId, error |-> NULL]),
               InitRateLimits(u), StartClock, 1)
  /\ budget = [requests |-> 0, restarts |-> 0, slots |-> RetryMinutes * SlotsPerMinute]
  /\ failures = <<>>
  /\ backoff = NoBackoff

NextStarve ==
  \/ \E k \in Ticks : StartTick(k)
  \/ \E k \in Ticks : Loaded(k)
  \/ \E k \in Ticks : GotUsage(k)
  \/ \E k \in Ticks : UsageUpdated(k)
  \/ \E k \in Ticks : TweetUpdated(k)
  \/ AdvanceClock

SpecStarve == InitStarve /\ [][NextStarve]_vars

\* the clock has run through all its minutes, each of them had its tick and
\* every tick has returned
HorizonReached ==
  /\ budget.slots = 0
  /\ ~timerDue
  /\ \A k \in Ticks : tick[k].pc = "idle"

\* C33: once the clock has passed through minutes whose buckets are below
\* every limit and a tick has run in each of them, the tweet is no longer
\* 'pending': a tick has passed it to the (simulated) publish operation.
C33_DeniedNotStarved ==
  HorizonReached
    => \A id \in DOMAIN tweets : tweets[id].status # "pending"

----------------------------------------------------------------------------
(* Further claims checked under Spec: denials, fingerprints, edits *)

\* C34: a rate check that denies the attempt leaves the consumed points of
\* the three limiters and every ledger row as they were.
C34_DenialChangesNoBudget ==
  [][\A k \in Ticks :
       Denied(k)
         => /\ rate_limits' = rate_limits
            /\ \A p \in Periods :
                 limiter'[p].consumed = limiter[p].consumed]_vars

\* postTweet returns a failure to tick k
PublishFailed(k) ==
  /\ tick[k].pc # "updateTweet"
  /\ tick'[k].pc = "updateTweet"
  /\ tick'[k].result = "error"

\* postTweet returns a success, real or simulated, to tick k
PublishSucceeded(k) ==
  /\ tick[k].pc \in {"updateUsage", "tweet"}
  /\ tick'[k].pc = "updateTweet"
  /\ tick'[k].result \in {"success", "dryRun"}

\* C35: a failing publish call leaves postedHashes as it was, and every
\* fingerprint that enters postedHashes is that of a tweet whose publish has
\* just succeeded or been simulated.
C35_FailureNotMarked ==
  [][/\ \A k \in Ticks : PublishFailed(k) => postedHashes' = postedHashes
     /\ \A h \in postedHashes' \ postedHashes :
          \E k \in Ticks :
            /\ PublishSucceeded(k)
            /\ h = generateContentHash(tick[k].due[1].text)]_vars

\* C35 witness: a publish call was rejected, the tick is about to persist the
\* failure and the tweet's fingerprint is not in postedHashes.
C35_Witness ==
  \E k \in Ticks :
    /\ tick[k].pc = "updateTweet"
    /\ tick[k].result = "error"
    /\ tick[k].error \in ErrorMessages
    /\ generateContentHash(tick[k].due[1].text) \notin postedHashes

\* the row of tweet id was re-scheduled by an edit after the tick holding it
\* had loaded it: it is pending with attempts 0 and a runAt still ahead
Rescheduled(id) ==
  /\ id \in DOMAIN tweets
  /\ tweets[id].status = "pending"
  /\ tweets[id].attempts = 0
  /\ tweets[id].runAt > clock

\* C36: a tick that persists the outcome of a tweet re-scheduled since the
\* tick loaded it leaves the row as the edit made it.
C36_EditSurvivesTick ==
  [][\A k \in Ticks :
       (TweetUpdated(k) /\ Rescheduled(tick[k].due[1].id))
         => tweets'[tick[k].due[1].id] = tweets[tick[k].due[1].id]]_vars

\* C37: from one instant to the next the day bucket key changes exactly when
\* the civil hour wraps to 00, and the hour and minute keys change exactly
\* when the civil hour and the civil minute change.
C37_BucketsFollowCivilTime ==
  [][clock' # clock
       => /\ (BucketKey("daily", clock') # BucketKey("daily", clock))
               <=> (getHours(clock') < getHours(clock))
          /\ (BucketKey("hourly", clock') # BucketKey("hourly", clock))
               <=> (getHours(clock') # getHours(clock))
          /\ (BucketKey("minute", clock') # BucketKey("minute", clock))
               <=> (getMinutes(clock') # getMinutes(clock))]_vars

====
